---- MODULE Spec2Model ----
(***************************************************************************)
(* CityFix report store (src/src/contexts/ReportContext.tsx) and the       *)
(* remote calls it makes (src/src/lib/issues.ts).                          *)
(*                                                                         *)
(* Every context operation is an async function: it is called (capturing   *)
(* the `reports` of the render it was created in), the backend serves its  *)
(* remote call, and the code after the `await` runs when the response      *)
(* arrives.  Each of the three moments is one action; operations in flight *)
(* live in `ops`.                                                          *)
(* uploadImage (src/unnamed/part_000) is modelled the same way, on its own *)
(* variable `upload`.                                                      *)
(***************************************************************************)
EXTENDS Integers, Sequences, FiniteSets, TLC

\* ---------------------------------------------------------------- bounds
MaxOps == 2        \* operations (calls and refetches) in flight at once
MaxIssues == 2     \* rows the backend ever creates in table issues
MaxUsers == 2      \* user ids 1..MaxUsers
MaxComments == 2   \* rows the backend ever creates in table issue_comments
MaxNotify == 1     \* change notifications waiting for delivery
MaxCalls == 3      \* calls of context operations in one session
MaxUploads == 2    \* files uploadImage sends to the storage

Slots == 1..MaxOps
Ids == 1..MaxIssues
Users == 1..MaxUsers

\* Drafts handed to addReport and partial updates handed to updateReport.
Drafts ==
  { [category |-> "pothole", severity |-> "medium", status |-> "reported"],
    [category |-> "garbage", severity |-> "high", status |-> "under_review"] }

Updates ==
  { [status |-> "resolved"], [category |-> "graffiti"] }

\* The vocabularies of Report (ReportCategory, ReportSeverity, ReportStatus).
Categories ==
  {"pothole", "streetlight", "garbage", "graffiti", "road_damage", "flooding",
   "sign_damage", "other"}

Severities == {"low", "medium", "high"}

Statuses == {"reported", "under_review", "in_progress", "resolved", "closed"}

\* Every draft addReport accepts.
WideDrafts == [category : Categories, severity : Severities, status : Statuses]

\* Values a Partial<Report> can carry, by key.
FieldValues ==
  [title |-> {"", "t"},
   description |-> {"", "d"},
   category |-> Categories,
   severity |-> Severities,
   location |-> {[address |-> "a"]},
   images |-> {<<>>, <<"u">>},
   status |-> Statuses,
   id |-> {MaxIssues + 1},
   upvotes |-> {MaxUsers + 1},
   upvotedBy |-> {<<1>>},
   comments |-> {<<>>},
   reportedBy |-> {[id |-> 1]},
   assignedTo |-> {[id |-> 1]}]

\* Every partial update of one or two keys.
WideUpdates ==
  UNION { { k :> v : v \in FieldValues[k] } : k \in DOMAIN FieldValues }
  \cup
  UNION { UNION { { (k1 :> v1) @@ (k2 :> v2) :
                    v1 \in FieldValues[k1], v2 \in FieldValues[k2] } :
                  k2 \in DOMAIN FieldValues \ {k1} } :
          k1 \in DOMAIN FieldValues }

\* const maxSize = 1.5 * 1024 * 1024
maxSize == 1572864

\* MIME types, as the characters of file.type.
Types ==
  {<<>>,
   <<"i", "m", "a", "g", "e">>,
   <<"i", "m", "a", "g", "e", "/">>,
   <<"i", "m", "a", "g", "e", "/", "p", "n", "g">>,
   <<"I", "m", "a", "g", "e", "/", "p", "n", "g">>,
   <<"t", "e", "x", "t", "/", "p", "l", "a", "i", "n">>,
   <<"x", "/", "i", "m", "a", "g", "e", "/">>}

\* File sizes in bytes, around maxSize.
Sizes == {0, maxSize - 1, maxSize, maxSize + 1, 2 * maxSize}

Files == [type : Types, size : Sizes]

\* The texts of comment drafts.
Texts == {"test", "other"}

CommentDrafts == [text : Texts]

VARIABLES
  reports,     \* useState<Report[]>: the local collection
  issues,      \* backend table issues, in creation order
  nextId,      \* next id the backend assigns to an issue
  comments,    \* backend table issue_comments, in creation order
  ops,         \* operations in flight, by slot
  notify,      \* postgres_changes notifications not yet delivered
  outcome,     \* what the last completed call gave its caller
  calls,       \* number of context operations called so far
  known,       \* history: ids the collection has shown, which a caller can name
  voted,       \* history: <<id, userId>> whose upvoteReport added a vote locally
  deleted,     \* history: ids whose deleteReport completed successfully
  lastUpvote,  \* history: the upvoteReport that produced the current collection
  subscribed,  \* the provider is mounted and its channel issues_changes is open
  upload       \* the uploadImage call under way, its file and its result

vars == <<reports, issues, nextId, comments, ops, notify, outcome, calls, known,
          voted, deleted, lastUpvote, subscribed, upload>>

\* ------------------------------------------------------------- helpers
\* What one completed upvoteReport read: the report and user it names and the
\* votes of that report in the collection it captured.  id = 0: no such call.
NoUpvote == [id |-> 0, userId |-> 0, before |-> <<>>]

\* No call has completed yet.
NoOutcome ==
  [kind |-> "none", id |-> 0, remote |-> "none", result |-> "none", value |-> <<>>]

\* No uploadImage has been called.
NoUpload ==
  [stage |-> "idle", file |-> [type |-> <<>>, size |-> 0], requests |-> 0,
   result |-> "none"]

Idle ==
  [kind |-> "idle", id |-> 0, userId |-> 0, arg |-> <<>>, reports |-> <<>>,
   payload |-> <<>>, resp |-> "none", data |-> <<>>, again |-> FALSE,
   follows |-> NoUpvote, before |-> <<>>]

Range(s) == { s[i] : i \in DOMAIN s }

Map(s, F(_)) == [i \in DOMAIN s |-> F(s[i])]

Filter(s, P(_)) == SelectSeq(s, P)

Reverse(s) == [i \in DOMAIN s |-> s[Len(s) + 1 - i]]

Includes(s, x) == x \in Range(s)

\* The reports of a collection that carry the given id.
WithId(rs, id) == { i \in DOMAIN rs : rs[i].id = id }

\* upvotes and upvotedBy of the reports of a collection that carry the id.
Votes(rs, id) ==
  Map(SelectSeq(rs, LAMBDA r : r.id = id),
      LAMBDA r : [upvotes |-> r.upvotes, upvotedBy |-> r.upvotedBy])

FreeSlots == { i \in Slots : ops[i].kind = "idle" }

\* What the call in slot i gives its caller when it completes: an error or
\* a return, and with value = <<v>> the value returned.
Outcome(i, result) ==
  [kind |-> ops[i].kind, id |-> ops[i].id, remote |-> ops[i].resp,
   result |-> result, value |-> <<>>]

\* A consumer of the mounted provider starts one more operation.
Called ==
  /\ subscribed
  /\ calls < MaxCalls
  /\ calls' = calls + 1

\* A new operation takes the lowest free slot.
Start(op) ==
  /\ FreeSlots # {}
  /\ LET i == CHOOSE j \in FreeSlots : \A k \in FreeSlots : j <= k
     IN ops' = [ops EXCEPT ![i] = op]

Awaiting(i, kind) == ops[i].kind = kind /\ ops[i].resp = "none"
Resumed(i, kind) == ops[i].kind = kind /\ ops[i].resp # "none"

\* A channel that announces nothing.
Notified_None == notify

\* A change of a row of table issues is announced to the subscriber.
Notified == IF notify < MaxNotify THEN notify + 1 ELSE notify

\* reportCategoryToIssueCategory with flooding filed under other.
reportCategoryToIssueCategory_FloodingOther(category) ==
  CASE category \in {"pothole", "road_damage"} -> "road"
    [] category = "streetlight" -> "electricity"
    [] category \in {"garbage", "sign_damage"} -> "waste"
    [] OTHER -> "other"

reportCategoryToIssueCategory(category) ==
  CASE category \in {"pothole", "road_damage"} -> "road"
    [] category = "streetlight" -> "electricity"
    [] category \in {"garbage", "flooding", "sign_damage"} -> "waste"
    [] category = "graffiti" -> "other"
    [] category = "other" -> "other"
    [] OTHER -> "other"

reportSeverityToPriority(severity) ==
  CASE severity = "low" -> "low"
    [] severity = "medium" -> "medium"
    [] severity = "high" -> "high"
    [] OTHER -> "medium"

\* issues.map(issue => ({...})) in fetchReports
formattedReport(issue) ==
  [id |-> issue.id,
   category |-> issue.category,
   status |-> issue.status,
   severity |-> issue.priority,
   upvotes |-> issue.votes,
   upvotedBy |-> <<>>,
   comments |-> <<>>]

formattedReports(list) == Map(list, formattedReport)

\* The payload addReport sends to createIssue.
supabaseIssue(report) ==
  [category |-> reportCategoryToIssueCategory(report.category),
   status |-> IF report.status = "under_review" THEN "reported" ELSE report.status,
   priority |-> reportSeverityToPriority(report.severity)]

\* if (updates.f) for a string field: present and not the empty string.
Truthy(updates, f) == f \in DOMAIN updates /\ updates[f] # ""

\* updateReport passing the partial update on as it came.
supabaseUpdates_ForwardAll(updates) == updates

\* The payload updateReport sends to updateIssue.  Objects and arrays
\* (location, images) are truthy whenever present.
supabaseUpdates(updates) ==
  LET keys == (IF Truthy(updates, "title") THEN {"title"} ELSE {})
              \cup (IF Truthy(updates, "description") THEN {"description"} ELSE {})
              \cup (IF Truthy(updates, "category") THEN {"category"} ELSE {})
              \cup (IF Truthy(updates, "severity") THEN {"priority"} ELSE {})
              \cup (IF "location" \in DOMAIN updates THEN {"location"} ELSE {})
              \cup (IF "images" \in DOMAIN updates THEN {"images"} ELSE {})
              \cup (IF Truthy(updates, "status") THEN {"status"} ELSE {})
  IN [k \in keys |->
        CASE k = "title" -> updates.title
          [] k = "description" -> updates.description
          [] k = "category" -> reportCategoryToIssueCategory(updates.category)
          [] k = "priority" -> reportSeverityToPriority(updates.severity)
          [] k = "location" -> updates.location
          [] k = "images" -> updates.images
          [] k = "status" -> updates.status]

\* { ...report, ...updates }
Spread(report, updates) ==
  [k \in DOMAIN report \cup DOMAIN updates |->
     IF k \in DOMAIN updates THEN updates[k] ELSE report[k]]

\* The report built by addReport from the created row and the draft.
newReport(createdIssue, report) ==
  [id |-> createdIssue.id,
   category |-> report.category,
   status |-> createdIssue.status,
   severity |-> report.severity,
   upvotes |-> createdIssue.votes,
   upvotedBy |-> <<>>,
   comments |-> <<>>]

\* upvoteOne without the check of upvotedBy.
upvoteOne_NoCheck(report, id, userId) ==
  IF report.id = id
  THEN [report EXCEPT !.upvotes = report.upvotes + 1,
                      !.upvotedBy = Append(report.upvotedBy, userId)]
  ELSE report

\* upvoteOne writing upvotedBy: [userId] instead of appending.
upvoteOne_Overwrite(report, id, userId) ==
  IF report.id = id
  THEN IF Includes(report.upvotedBy, userId)
       THEN report
       ELSE [report EXCEPT !.upvotes = report.upvotes + 1,
                           !.upvotedBy = <<userId>>]
  ELSE report

\* The map callback of upvoteReport.
upvoteOne(report, id, userId) ==
  IF report.id = id
  THEN IF Includes(report.upvotedBy, userId)
       THEN report
       ELSE [report EXCEPT !.upvotes = report.upvotes + 1,
                           !.upvotedBy = Append(report.upvotedBy, userId)]
  ELSE report

\* Backend procedure vote_on_issue: one vote per user and issue.
vote_on_issue(row, userId) ==
  IF userId \in row.voters
  THEN row
  ELSE [row EXCEPT !.votes = row.votes + 1, !.voters = row.voters \cup {userId}]

\* ------------------------------------------------------------- initial
\* The provider has mounted: no reports yet, the first fetchReports() is on
\* its way and the subscription is open.
Init ==
  /\ reports = <<>>
  /\ issues = <<>>
  /\ nextId = 1
  /\ comments = <<>>
  /\ ops = [i \in Slots |-> IF i = 1 THEN [Idle EXCEPT !.kind = "fetch"] ELSE Idle]
  /\ notify = 0
  /\ outcome = NoOutcome
  /\ calls = 0
  /\ known = {}
  /\ voted = {}
  /\ deleted = {}
  /\ lastUpvote = [cur |-> NoUpvote, prev |-> NoUpvote]
  /\ subscribed = TRUE
  /\ upload = NoUpload

\* The collection was last written by something else than an upvoteReport.
NoChain == [cur |-> NoUpvote, prev |-> NoUpvote]

\* ------------------------------------------------ fetchReports / subscription
\* subscribeToIssues callback: a delivered notification starts fetchReports()
\* (again marks a fetch started here, as against the one of the mount).
subscribeToIssues ==
  /\ subscribed
  /\ notify > 0
  /\ Start([Idle EXCEPT !.kind = "fetch", !.again = TRUE])
  /\ notify' = notify - 1
  /\ UNCHANGED <<reports, issues, nextId, comments, outcome, voted, deleted, lastUpvote, calls, known, subscribed, upload>>

\* The cleanup of the effect: subscription.unsubscribe().  Operations in
\* flight, fetchReports included, go on.
unsubscribe ==
  /\ subscribed
  /\ subscribed' = FALSE
  /\ UNCHANGED <<reports, issues, nextId, comments, ops, notify, outcome, calls,
                 known, voted, deleted, lastUpvote, upload>>

\* The row as the client receives it (the voters are kept by the backend).
Row(r) ==
  [id |-> r.id, category |-> r.category, status |-> r.status,
   priority |-> r.priority, votes |-> r.votes]

\* The backend answers getIssues(): all rows, newest first, or an error.
getIssues(i) ==
  /\ Awaiting(i, "fetch")
  /\ \/ ops' = [ops EXCEPT ![i].resp = "ok", ![i].data = Reverse(Map(issues, Row))]
     \/ ops' = [ops EXCEPT ![i].resp = "err"]
  /\ UNCHANGED <<reports, issues, nextId, comments, notify, outcome, voted, deleted, lastUpvote, calls, known, subscribed, upload>>

\* fetchReports that keeps the local reports the fetched list does not name.
fetchReports_Merge(i) ==
  /\ Resumed(i, "fetch")
  /\ IF ops[i].resp = "ok"
     THEN /\ reports' = formattedReports(ops[i].data) \o
                          SelectSeq(reports, LAMBDA r :
                            \A k \in DOMAIN ops[i].data : ops[i].data[k].id # r.id)
          /\ lastUpvote' = NoChain
     ELSE UNCHANGED <<reports, lastUpvote>>
  /\ ops' = [ops EXCEPT ![i] = Idle]
  /\ known' = known \cup { reports'[k].id : k \in DOMAIN reports' }
  /\ UNCHANGED <<issues, nextId, comments, notify, outcome, voted, deleted, calls, subscribed, upload>>

\* fetchReports after its await: replace the collection, or log the error.
fetchReports(i) ==
  /\ Resumed(i, "fetch")
  /\ IF ops[i].resp = "ok"
     THEN /\ reports' = formattedReports(ops[i].data)
          /\ lastUpvote' = NoChain
     ELSE UNCHANGED <<reports, lastUpvote>>
  /\ ops' = [ops EXCEPT ![i] = Idle]
  /\ known' = known \cup { reports'[k].id : k \in DOMAIN reports' }
  /\ UNCHANGED <<issues, nextId, comments, notify, outcome, voted, deleted, calls, subscribed, upload>>

\* ------------------------------------------------------------------ addReport
\* Callers of the operations below name a report they have seen in the
\* collection (id \in known).

addReportCall(report) ==
  /\ Called
  /\ Start([Idle EXCEPT !.kind = "add", !.arg = report,
                         !.payload = supabaseIssue(report),
                         !.reports = reports])
  /\ UNCHANGED <<reports, issues, nextId, comments, notify, outcome, voted, deleted, lastUpvote, known, subscribed, upload>>

\* The backend serves createIssue: insert and return the row, or an error.
createIssue(i) ==
  /\ Awaiting(i, "add")
  /\ \/ /\ nextId <= MaxIssues
        /\ LET row == [id |-> nextId,
                       category |-> ops[i].payload.category,
                       status |-> ops[i].payload.status,
                       priority |-> ops[i].payload.priority,
                       votes |-> 0, voters |-> {}]
           IN /\ issues' = Append(issues, row)
              /\ ops' = [ops EXCEPT ![i].resp = "ok", ![i].data = Row(row)]
        /\ nextId' = nextId + 1
        /\ notify' = Notified
     \/ /\ ops' = [ops EXCEPT ![i].resp = "err"]
        /\ UNCHANGED <<issues, nextId, notify>>
  /\ UNCHANGED <<reports, comments, outcome, voted, deleted, lastUpvote, calls, known, subscribed, upload>>

\* addReport that inserts the draft before the response and never takes it back.
addReport_Optimistic(i) ==
  /\ Resumed(i, "add")
  /\ IF ops[i].resp = "ok"
     THEN /\ reports' = Append(reports, newReport(ops[i].data, ops[i].arg))
          /\ outcome' = Outcome(i, "ok")
     ELSE /\ reports' = Append(reports,
                               newReport([id |-> 0, status |-> ops[i].arg.status,
                                          votes |-> 0], ops[i].arg))
          /\ outcome' = Outcome(i, "error")
  /\ lastUpvote' = NoChain
  /\ ops' = [ops EXCEPT ![i] = Idle]
  /\ known' = known \cup { reports'[k].id : k \in DOMAIN reports' }
  /\ UNCHANGED <<issues, nextId, comments, notify, voted, deleted, calls, subscribed, upload>>

\* addReport that appends to the collection it captured at the call.
addReport_Captured(i) ==
  /\ Resumed(i, "add")
  /\ IF ops[i].resp = "ok"
     THEN /\ reports' = Append(ops[i].reports, newReport(ops[i].data, ops[i].arg))
          /\ outcome' = Outcome(i, "ok")
          /\ lastUpvote' = NoChain
     ELSE /\ outcome' = Outcome(i, "error")
          /\ UNCHANGED <<reports, lastUpvote>>
  /\ ops' = [ops EXCEPT ![i] = Idle]
  /\ known' = known \cup { reports'[k].id : k \in DOMAIN reports' }
  /\ UNCHANGED <<issues, nextId, comments, notify, voted, deleted, calls, subscribed, upload>>

\* addReport after its await: append to the current collection (functional
\* update), or let the error of createIssue reach the caller.
addReport(i) ==
  /\ Resumed(i, "add")
  /\ IF ops[i].resp = "ok"
     THEN /\ reports' = Append(reports, newReport(ops[i].data, ops[i].arg))
          /\ outcome' = Outcome(i, "ok")
          /\ lastUpvote' = NoChain
     ELSE /\ outcome' = Outcome(i, "error")
          /\ UNCHANGED <<reports, lastUpvote>>
  /\ ops' = [ops EXCEPT ![i] = Idle]
  /\ known' = known \cup { reports'[k].id : k \in DOMAIN reports' }
  /\ UNCHANGED <<issues, nextId, comments, notify, voted, deleted, calls, subscribed, upload>>

\* --------------------------------------------------------------- updateReport
updateReportCall(id, updates) ==
  /\ Called
  /\ id \in known
  /\ Start([Idle EXCEPT !.kind = "update", !.id = id, !.arg = updates,
                         !.payload = supabaseUpdates(updates),
                         !.reports = reports])
  /\ UNCHANGED <<reports, issues, nextId, comments, notify, outcome, voted, deleted, lastUpvote, known, subscribed, upload>>

\* The backend serves updateIssue: update the row with that id and return it;
\* an unknown id is an error.
updateIssue(i) ==
  /\ Awaiting(i, "update")
  /\ \/ /\ \E k \in DOMAIN issues : issues[k].id = ops[i].id
        /\ issues' = Map(issues, LAMBDA r : IF r.id = ops[i].id
                                            THEN Spread(r, ops[i].payload)
                                            ELSE r)
        /\ ops' = [ops EXCEPT ![i].resp = "ok"]
        /\ notify' = Notified
     \/ /\ ops' = [ops EXCEPT ![i].resp = "err"]
        /\ UNCHANGED <<issues, notify>>
  /\ UNCHANGED <<reports, nextId, comments, outcome, voted, deleted, lastUpvote, calls, known, subscribed, upload>>

\* updateReport that merges whatever updateIssue answered.
updateReport_Optimistic(i) ==
  /\ Resumed(i, "update")
  /\ reports' = Map(ops[i].reports, LAMBDA report :
                      IF report.id = ops[i].id
                      THEN Spread(report, ops[i].arg)
                      ELSE report)
  /\ outcome' = Outcome(i, IF ops[i].resp = "ok" THEN "ok" ELSE "error")
  /\ lastUpvote' = NoChain
  /\ ops' = [ops EXCEPT ![i] = Idle]
  /\ UNCHANGED <<issues, nextId, comments, notify, voted, deleted, calls, known, subscribed, upload>>

\* updateReport whose merge lets the fields of the report win.
updateReport_LocalWins(i) ==
  /\ Resumed(i, "update")
  /\ IF ops[i].resp = "ok"
     THEN /\ reports' = Map(ops[i].reports, LAMBDA report :
                             IF report.id = ops[i].id
                             THEN Spread(ops[i].arg, report)
                             ELSE report)
          /\ outcome' = Outcome(i, "ok")
          /\ lastUpvote' = NoChain
     ELSE /\ outcome' = Outcome(i, "error")
          /\ UNCHANGED <<reports, lastUpvote>>
  /\ ops' = [ops EXCEPT ![i] = Idle]
  /\ UNCHANGED <<issues, nextId, comments, notify, voted, deleted, calls, known, subscribed, upload>>

\* updateReport after its await: merge into the captured collection.
updateReport(i) ==
  /\ Resumed(i, "update")
  /\ IF ops[i].resp = "ok"
     THEN /\ reports' = Map(ops[i].reports, LAMBDA report :
                             IF report.id = ops[i].id
                             THEN Spread(report, ops[i].arg)
                             ELSE report)
          /\ outcome' = Outcome(i, "ok")
          /\ lastUpvote' = NoChain
     ELSE /\ outcome' = Outcome(i, "error")
          /\ UNCHANGED <<reports, lastUpvote>>
  /\ ops' = [ops EXCEPT ![i] = Idle]
  /\ UNCHANGED <<issues, nextId, comments, notify, voted, deleted, calls, known, subscribed, upload>>

\* --------------------------------------------------------------- deleteReport
deleteReportCall(id) ==
  /\ Called
  /\ id \in known
  /\ Start([Idle EXCEPT !.kind = "delete", !.id = id, !.reports = reports])
  /\ UNCHANGED <<reports, issues, nextId, comments, notify, outcome, voted, deleted, lastUpvote, known, subscribed, upload>>

\* The backend serves deleteIssue: remove the row; an unknown id is an error.
deleteIssue(i) ==
  /\ Awaiting(i, "delete")
  /\ \/ /\ \E k \in DOMAIN issues : issues[k].id = ops[i].id
        /\ issues' = Filter(issues, LAMBDA r : r.id # ops[i].id)
        /\ ops' = [ops EXCEPT ![i].resp = "ok"]
        /\ notify' = Notified
     \/ /\ ops' = [ops EXCEPT ![i].resp = "err"]
        /\ UNCHANGED <<issues, notify>>
  /\ UNCHANGED <<reports, nextId, comments, outcome, voted, deleted, lastUpvote, calls, known, subscribed, upload>>

\* deleteReport that filters the collection whatever deleteIssue answered.
deleteReport_AlwaysLocal(i) ==
  /\ Resumed(i, "delete")
  /\ reports' = Filter(ops[i].reports, LAMBDA report : report.id # ops[i].id)
  /\ outcome' = Outcome(i, IF ops[i].resp = "ok" THEN "ok" ELSE "error")
  /\ deleted' = IF ops[i].resp = "ok" THEN deleted \cup {ops[i].id} ELSE deleted
  /\ lastUpvote' = NoChain
  /\ ops' = [ops EXCEPT ![i] = Idle]
  /\ UNCHANGED <<issues, nextId, comments, notify, voted, calls, known, subscribed, upload>>

\* deleteReport that filters the collection of the moment (functional
\* update) and not the one it captured.
deleteReport_Functional(i) ==
  /\ Resumed(i, "delete")
  /\ IF ops[i].resp = "ok"
     THEN /\ reports' = Filter(reports, LAMBDA report : report.id # ops[i].id)
          /\ outcome' = Outcome(i, "ok")
          /\ deleted' = deleted \cup {ops[i].id}
          /\ lastUpvote' = NoChain
     ELSE /\ outcome' = Outcome(i, "error")
          /\ UNCHANGED <<reports, deleted, lastUpvote>>
  /\ ops' = [ops EXCEPT ![i] = Idle]
  /\ UNCHANGED <<issues, nextId, comments, notify, voted, calls, known, subscribed, upload>>

\* deleteReport after its await: filter the captured collection.
deleteReport(i) ==
  /\ Resumed(i, "delete")
  /\ IF ops[i].resp = "ok"
     THEN /\ reports' = Filter(ops[i].reports, LAMBDA report : report.id # ops[i].id)
          /\ outcome' = Outcome(i, "ok")
          /\ deleted' = deleted \cup {ops[i].id}
          /\ lastUpvote' = NoChain
     ELSE /\ outcome' = Outcome(i, "error")
          /\ UNCHANGED <<reports, deleted, lastUpvote>>
  /\ ops' = [ops EXCEPT ![i] = Idle]
  /\ UNCHANGED <<issues, nextId, comments, notify, voted, calls, known, subscribed, upload>>

\* --------------------------------------------------------------- upvoteReport
\* upvoteReport that looks for the user in upvotedBy first and sends nothing
\* to the backend if the user is there.
upvoteReportCall_CheckFirst(id, userId) ==
  /\ Called
  /\ id \in known
  /\ IF \E k \in WithId(reports, id) : Includes(reports[k].upvotedBy, userId)
     THEN /\ outcome' = [kind |-> "upvote", id |-> id, remote |-> "none",
                         result |-> "ok", value |-> <<>>]
          /\ UNCHANGED ops
     ELSE /\ Start([Idle EXCEPT !.kind = "upvote", !.id = id, !.userId = userId,
                                !.payload = [issue_id |-> id, user_id |-> userId],
                                !.reports = reports,
                                !.again = (<<id, userId>> \in voted),
                                !.follows = lastUpvote.cur])
          /\ UNCHANGED outcome
  /\ UNCHANGED <<reports, issues, nextId, comments, notify, voted, deleted, lastUpvote, known, subscribed, upload>>

\* upvoteReport up to its await: voteOnIssue(id, userId) is the first
\* statement, whatever upvotedBy holds.
upvoteReportCall(id, userId) ==
  /\ Called
  /\ id \in known
  /\ Start([Idle EXCEPT !.kind = "upvote", !.id = id, !.userId = userId,
                         !.payload = [issue_id |-> id, user_id |-> userId],
                         !.reports = reports,
                         !.again = (<<id, userId>> \in voted),
                         !.follows = lastUpvote.cur])
  /\ UNCHANGED <<reports, issues, nextId, comments, notify, outcome, voted, deleted, lastUpvote, known, subscribed, upload>>

\* The backend serves voteOnIssue: run vote_on_issue, or an error.
voteOnIssue(i) ==
  /\ Awaiting(i, "upvote")
  /\ \/ /\ \E k \in DOMAIN issues : issues[k].id = ops[i].id
        /\ issues' = Map(issues, LAMBDA r : IF r.id = ops[i].id
                                            THEN vote_on_issue(r, ops[i].userId)
                                            ELSE r)
        /\ ops' = [ops EXCEPT ![i].resp = "ok"]
        /\ notify' = IF issues' # issues THEN Notified ELSE notify
     \/ /\ ops' = [ops EXCEPT ![i].resp = "err"]
        /\ UNCHANGED <<issues, notify>>
  /\ UNCHANGED <<reports, nextId, comments, outcome, voted, deleted, lastUpvote, calls, known, subscribed, upload>>

\* What this upvoteReport read for the report it names.
UpvoteFact(op) ==
  IF WithId(op.reports, op.id) = {}
  THEN NoUpvote
  ELSE [id |-> op.id, userId |-> op.userId, before |-> Votes(op.reports, op.id)]

\* upvoteReport without the try/catch: the error of voteOnIssue reaches the
\* caller and nothing is written.
upvoteReport_Rethrow(i) ==
  /\ Resumed(i, "upvote")
  /\ IF ops[i].resp = "ok"
     THEN /\ reports' = Map(ops[i].reports, LAMBDA report :
                             upvoteOne(report, ops[i].id, ops[i].userId))
          /\ outcome' = Outcome(i, "ok")
          /\ voted' = IF \E k \in WithId(ops[i].reports, ops[i].id) :
                            ~Includes(ops[i].reports[k].upvotedBy, ops[i].userId)
                      THEN voted \cup {<<ops[i].id, ops[i].userId>>}
                      ELSE voted
          /\ lastUpvote' = [cur |-> UpvoteFact(ops[i]), prev |-> ops[i].follows]
     ELSE /\ outcome' = Outcome(i, "error")
          /\ UNCHANGED <<reports, voted, lastUpvote>>
  /\ ops' = [ops EXCEPT ![i] = Idle]
  /\ UNCHANGED <<issues, nextId, comments, notify, deleted, calls, known, subscribed, upload>>

\* upvoteReport after its try/catch: the error of voteOnIssue is logged only,
\* the captured collection is mapped and written either way.
upvoteReport(i) ==
  /\ Resumed(i, "upvote")
  /\ reports' = Map(ops[i].reports, LAMBDA report :
                      upvoteOne(report, ops[i].id, ops[i].userId))
  /\ outcome' = Outcome(i, "ok")
  /\ voted' = IF \E k \in WithId(ops[i].reports, ops[i].id) :
                    ~Includes(ops[i].reports[k].upvotedBy, ops[i].userId)
              THEN voted \cup {<<ops[i].id, ops[i].userId>>}
              ELSE voted
  /\ lastUpvote' = [cur |-> UpvoteFact(ops[i]), prev |-> ops[i].follows]
  /\ ops' = [ops EXCEPT ![i] = Idle]
  /\ UNCHANGED <<issues, nextId, comments, notify, deleted, calls, known, subscribed, upload>>

\* ----------------------------------------------------------------- addComment
\* The rows of issue_comments of one issue, oldest first (rows are kept in
\* creation order and created_at never decreases).
CommentsOf(issue_id) == SelectSeq(comments, LAMBDA c : c.issue_id = issue_id)

\* The comment built by addComment from the draft and the created row.
newComment(commentData, comment) ==
  Spread(commentData, [id |-> comment.id, createdAt |-> comment.created_at])

addCommentCall(reportId, commentData) ==
  /\ Called
  /\ reportId \in known
  /\ Len(comments) < MaxComments
  /\ Start([Idle EXCEPT !.kind = "comment", !.id = reportId, !.arg = commentData,
                         !.payload = [issue_id |-> reportId,
                                      content |-> commentData.text],
                         !.reports = reports])
  /\ UNCHANGED <<reports, issues, nextId, comments, notify, outcome, voted, deleted, lastUpvote, known, subscribed, upload>>

\* The backend serves createComment: insert and return the row, or an error.
\* Time is counted in calls made.
createComment(i) ==
  /\ Awaiting(i, "comment")
  /\ \/ /\ Len(comments) < MaxComments
        /\ LET row == [id |-> Len(comments) + 1,
                       issue_id |-> ops[i].payload.issue_id,
                       content |-> ops[i].payload.content,
                       created_at |-> calls]
           IN /\ comments' = Append(comments, row)
              /\ ops' = [ops EXCEPT ![i].resp = "ok", ![i].data = row]
     \/ /\ ops' = [ops EXCEPT ![i].resp = "err"]
        /\ UNCHANGED comments
  /\ UNCHANGED <<reports, issues, nextId, notify, outcome, voted, deleted, lastUpvote, calls, known, subscribed, upload>>

\* addComment that appends the draft whatever createComment answered.
addComment_AlwaysLocal(i) ==
  /\ Resumed(i, "comment")
  /\ reports' = Map(ops[i].reports, LAMBDA report :
                      IF report.id = ops[i].id
                      THEN [report EXCEPT !.comments =
                              Append(report.comments,
                                     Spread(ops[i].arg, [id |-> 0, createdAt |-> 0]))]
                      ELSE report)
  /\ outcome' = Outcome(i, IF ops[i].resp = "ok" THEN "ok" ELSE "error")
  /\ lastUpvote' = NoChain
  /\ ops' = [ops EXCEPT ![i] = Idle]
  /\ UNCHANGED <<issues, nextId, comments, notify, voted, deleted, calls, known, subscribed, upload>>

\* addComment after its await: append to the report in the captured
\* collection, or rethrow.
addComment(i) ==
  /\ Resumed(i, "comment")
  /\ IF ops[i].resp = "ok"
     THEN /\ reports' = Map(ops[i].reports, LAMBDA report :
                             IF report.id = ops[i].id
                             THEN [report EXCEPT !.comments =
                                     Append(report.comments,
                                            newComment(ops[i].arg, ops[i].data))]
                             ELSE report)
          /\ outcome' = Outcome(i, "ok")
          /\ lastUpvote' = NoChain
     ELSE /\ outcome' = Outcome(i, "error")
          /\ UNCHANGED <<reports, lastUpvote>>
  /\ ops' = [ops EXCEPT ![i] = Idle]
  /\ UNCHANGED <<issues, nextId, comments, notify, voted, deleted, calls, known, subscribed, upload>>

\* -------------------------------------------------------------- getReportById
\* reports.find((report) => report.id === id): <<report>>, or <<>> for undefined.
Find(rs, id) ==
  IF WithId(rs, id) = {}
  THEN <<>>
  ELSE <<rs[CHOOSE k \in WithId(rs, id) : \A j \in WithId(rs, id) : k <= j]>>

\* transformedComment reading the text from a column the row does not have.
transformedComment_NoText(comment) ==
  [id |-> comment.id, text |-> "", createdAt |-> comment.created_at]

\* comments.map(comment => ({...})) in getReportById
transformedComment(comment) ==
  [id |-> comment.id, text |-> comment.content, createdAt |-> comment.created_at]

transformedComments(list) == Map(list, transformedComment)

\* getReportById that asks the backend before it looks the report up.
getReportByIdCall_AlwaysFetch(id) ==
  /\ Called
  /\ Start([Idle EXCEPT !.kind = "get", !.id = id,
                         !.payload = [issue_id |-> id],
                         !.reports = reports,
                         !.before = CommentsOf(id)])
  /\ UNCHANGED <<reports, issues, nextId, comments, notify, outcome, voted, deleted, lastUpvote, known, subscribed, upload>>

\* getReportById up to its await: look the report up in the collection and
\* return undefined at once if it is not there, else ask for its comments.
\* (before records the rows the backend held for the report at the call.)
getReportByIdCall(id) ==
  /\ Called
  /\ IF Find(reports, id) = <<>>
     THEN /\ outcome' = [kind |-> "get", id |-> id, remote |-> "none",
                         result |-> "undefined", value |-> <<>>]
          /\ UNCHANGED ops
     ELSE /\ Start([Idle EXCEPT !.kind = "get", !.id = id,
                                !.payload = [issue_id |-> id],
                                !.reports = reports,
                                !.before = CommentsOf(id)])
          /\ UNCHANGED outcome
  /\ UNCHANGED <<reports, issues, nextId, comments, notify, voted, deleted, lastUpvote, known, subscribed, upload>>

\* The backend serves getComments: the rows of the issue, oldest first, or
\* an error.
getComments(i) ==
  /\ Awaiting(i, "get")
  /\ \/ ops' = [ops EXCEPT ![i].resp = "ok",
                            ![i].data = CommentsOf(ops[i].payload.issue_id)]
     \/ ops' = [ops EXCEPT ![i].resp = "err"]
  /\ UNCHANGED <<reports, issues, nextId, comments, notify, outcome, voted, deleted, lastUpvote, calls, known, subscribed, upload>>

\* getReportById without the try/catch: the error of getComments reaches the
\* caller.
getReportById_Rethrow(i) ==
  /\ Resumed(i, "get")
  /\ LET report == Find(ops[i].reports, ops[i].id)[1]
     IN outcome' =
          IF ops[i].resp = "ok"
          THEN [Outcome(i, "ok") EXCEPT
                  !.value = <<[report EXCEPT
                                 !.comments = transformedComments(ops[i].data)]>>]
          ELSE Outcome(i, "error")
  /\ ops' = [ops EXCEPT ![i] = Idle]
  /\ UNCHANGED <<reports, issues, nextId, comments, notify, voted, deleted, lastUpvote, calls, known, subscribed, upload>>

\* getReportById after its await: the report found at the call, with the
\* fetched comments, or as it is if getComments failed.
getReportById(i) ==
  /\ Resumed(i, "get")
  /\ LET report == Find(ops[i].reports, ops[i].id)[1]
     IN outcome' =
          [Outcome(i, "ok") EXCEPT
             !.value = IF ops[i].resp = "ok"
                       THEN <<[report EXCEPT
                                 !.comments = transformedComments(ops[i].data)]>>
                       ELSE <<report>>]
  /\ ops' = [ops EXCEPT ![i] = Idle]
  /\ UNCHANGED <<reports, issues, nextId, comments, notify, voted, deleted, lastUpvote, calls, known, subscribed, upload>>

\* ---------------------------------------------------------------------- Next
Next ==
  \/ subscribeToIssues
  \/ unsubscribe
  \/ \E i \in Slots : getIssues(i)
  \/ \E i \in Slots : fetchReports(i)
  \/ \E report \in Drafts : addReportCall(report)
  \/ \E i \in Slots : createIssue(i)
  \/ \E i \in Slots : addReport(i)
  \/ \E id \in Ids, updates \in Updates : updateReportCall(id, updates)
  \/ \E i \in Slots : updateIssue(i)
  \/ \E i \in Slots : updateReport(i)
  \/ \E id \in Ids : deleteReportCall(id)
  \/ \E i \in Slots : deleteIssue(i)
  \/ \E i \in Slots : deleteReport(i)
  \/ \E id \in Ids, userId \in Users : upvoteReportCall(id, userId)
  \/ \E i \in Slots : voteOnIssue(i)
  \/ \E i \in Slots : upvoteReport(i)
  \/ \E reportId \in Ids, commentData \in CommentDrafts :
       addCommentCall(reportId, commentData)
  \/ \E i \in Slots : createComment(i)
  \/ \E i \in Slots : addComment(i)
  \/ \E id \in Ids : getReportByIdCall(id)
  \/ \E i \in Slots : getComments(i)
  \/ \E i \in Slots : getReportById(i)

Spec == Init /\ [][Next]_vars

\* ------------------------------------------------- two calls, two reports
\* Partial updates that set the same field to different values.
RaceUpdates == {[status |-> "resolved"], [status |-> "closed"]}

\* Two reports are there, each added from a draft by an earlier addReport,
\* and nothing is in flight; two more calls are made.
InitTwo ==
  /\ LET draft(id) == IF id = 1
                      THEN [category |-> "pothole", severity |-> "medium", status |-> "reported"]
                      ELSE [category |-> "garbage", severity |-> "high", status |-> "reported"]
         row(id) == [id |-> id,
                     category |-> supabaseIssue(draft(id)).category,
                     status |-> supabaseIssue(draft(id)).status,
                     priority |-> supabaseIssue(draft(id)).priority,
                     votes |-> 0, voters |-> {}]
     IN /\ reports = <<newReport(Row(row(1)), draft(1)), newReport(Row(row(2)), draft(2))>>
        /\ issues = <<row(1), row(2)>>
  /\ nextId = 3
  /\ known = {1, 2}
  /\ comments = <<>>
  /\ ops = [i \in Slots |-> Idle]
  /\ notify = 0
  /\ outcome = NoOutcome
  /\ calls = MaxCalls - 2
  /\ voted = {}
  /\ deleted = {}
  /\ lastUpvote = NoChain
  /\ subscribed = TRUE
  /\ upload = NoUpload

NextTwo ==
  \/ \E id \in Ids, updates \in RaceUpdates : updateReportCall(id, updates)
  \/ \E i \in Slots : updateIssue(i)
  \/ \E i \in Slots : updateReport(i)
  \/ \E id \in Ids : deleteReportCall(id)
  \/ \E i \in Slots : deleteIssue(i)
  \/ \E i \in Slots : deleteReport(i)
  \/ \E id \in Ids, userId \in Users : upvoteReportCall(id, userId)
  \/ \E i \in Slots : voteOnIssue(i)
  \/ \E i \in Slots : upvoteReport(i)
  \/ \E reportId \in Ids, commentData \in CommentDrafts :
       addCommentCall(reportId, commentData)
  \/ \E i \in Slots : createComment(i)
  \/ \E i \in Slots : addComment(i)

SpecTwo == InitTwo /\ [][NextTwo]_vars

\* ---------------------------------------------------------------- uploadImage
\* String.prototype.startsWith
startsWith(string, searchString) ==
  /\ Len(string) >= Len(searchString)
  /\ SubSeq(string, 1, Len(searchString)) = searchString

\* uploadImage that refuses a file of maxSize bytes too.
uploadImageCall_AtLeast(file) ==
  /\ upload.stage \in {"idle", "returned", "thrown"}
  /\ upload.requests < MaxUploads
  /\ upload' =
       IF ~startsWith(file.type, <<"i", "m", "a", "g", "e", "/">>)
       THEN [upload EXCEPT !.stage = "thrown", !.file = file,
                           !.result = "Invalid file type"]
       ELSE IF file.size >= maxSize
       THEN [upload EXCEPT !.stage = "thrown", !.file = file,
                           !.result = "File size exceeds 1.5MB limit"]
       ELSE [upload EXCEPT !.stage = "uploading", !.file = file,
                           !.requests = upload.requests + 1, !.result = "none"]
  /\ UNCHANGED <<reports, issues, nextId, comments, ops, notify, outcome, calls,
                 known, voted, deleted, lastUpvote, subscribed>>

\* uploadImage up to its await: validate the file, then send it to the
\* storage; a failed validation is thrown at once.
uploadImageCall(file) ==
  /\ upload.stage \in {"idle", "returned", "thrown"}
  /\ upload.requests < MaxUploads
  /\ upload' =
       IF ~startsWith(file.type, <<"i", "m", "a", "g", "e", "/">>)
       THEN [upload EXCEPT !.stage = "thrown", !.file = file,
                           !.result = "Invalid file type"]
       ELSE IF file.size > maxSize
       THEN [upload EXCEPT !.stage = "thrown", !.file = file,
                           !.result = "File size exceeds 1.5MB limit"]
       ELSE [upload EXCEPT !.stage = "uploading", !.file = file,
                           !.requests = upload.requests + 1, !.result = "none"]
  /\ UNCHANGED <<reports, issues, nextId, comments, ops, notify, outcome, calls,
                 known, voted, deleted, lastUpvote, subscribed>>

\* The storage answers the upload: stored, or an error.
storageUpload ==
  /\ upload.stage = "uploading"
  /\ \E uploadError \in {"none", "error"} :
       upload' = [upload EXCEPT !.stage = "uploaded", !.result = uploadError]
  /\ UNCHANGED <<reports, issues, nextId, comments, ops, notify, outcome, calls,
                 known, voted, deleted, lastUpvote, subscribed>>

\* uploadImage after its await: throw the upload error, else ask for the
\* public URL and return it, or throw if there is none.
uploadImage ==
  /\ upload.stage = "uploaded"
  /\ IF upload.result = "error"
     THEN upload' = [upload EXCEPT !.stage = "thrown",
                                   !.result = "Failed to upload image"]
     ELSE \E publicUrl \in {"", "url"} :
            upload' = IF publicUrl = ""
                      THEN [upload EXCEPT !.stage = "thrown",
                                          !.result = "Failed to get public URL"]
                      ELSE [upload EXCEPT !.stage = "returned", !.result = publicUrl]
  /\ UNCHANGED <<reports, issues, nextId, comments, ops, notify, outcome, calls,
                 known, voted, deleted, lastUpvote, subscribed>>

NextUpload ==
  \/ \E file \in Files : uploadImageCall(file)
  \/ storageUpload
  \/ uploadImage

SpecUpload == Init /\ [][NextUpload]_vars

\* ----------------------------------------------------------------- progress
\* The backend answers a request it has received.
Serve ==
  \E i \in Slots :
    \/ getIssues(i)
    \/ createIssue(i)
    \/ updateIssue(i)
    \/ deleteIssue(i)
    \/ voteOnIssue(i)
    \/ createComment(i)
    \/ getComments(i)

\* The event loop runs the code after an await whose response has arrived.
Resume ==
  \E i \in Slots :
    \/ fetchReports(i)
    \/ addReport(i)
    \/ updateReport(i)
    \/ deleteReport(i)
    \/ upvoteReport(i)
    \/ addComment(i)
    \/ getReportById(i)

\* The channel delivers its notifications, the backend answers and the event
\* loop runs what is ready.
SpecLive ==
  /\ Init
  /\ [][Next]_vars
  /\ WF_vars(subscribeToIssues)
  /\ WF_vars(Serve)
  /\ WF_vars(Resume)

\* ------------------------------------------------- every draft, every update
\* The last call of a session, made with any draft or any partial update:
\* either nothing has been reported yet, or report 1 is there, added from
\* a draft by an earlier addReport.
InitWide ==
  /\ \/ /\ reports = <<>>
        /\ issues = <<>>
        /\ nextId = 1
        /\ known = {}
     \/ LET draft == [category |-> "pothole", severity |-> "medium", status |-> "reported"]
            row == [id |-> 1,
                    category |-> supabaseIssue(draft).category,
                    status |-> supabaseIssue(draft).status,
                    priority |-> supabaseIssue(draft).priority,
                    votes |-> 0, voters |-> {}]
        IN /\ reports = <<newReport(Row(row), draft)>>
           /\ issues = <<row>>
           /\ nextId = 2
           /\ known = {1}
  /\ comments = <<>>
  /\ ops = [i \in Slots |-> Idle]
  /\ notify = 0
  /\ outcome = NoOutcome
  /\ calls = MaxCalls - 1
  /\ voted = {}
  /\ deleted = {}
  /\ lastUpvote = NoChain
  /\ subscribed = TRUE
  /\ upload = NoUpload

NextWide ==
  \/ \E report \in WideDrafts : addReportCall(report)
  \/ \E i \in Slots : createIssue(i)
  \/ \E i \in Slots : addReport(i)
  \/ \E id \in Ids, updates \in WideUpdates : updateReportCall(id, updates)
  \/ \E i \in Slots : updateIssue(i)
  \/ \E i \in Slots : updateReport(i)

SpecWide == InitWide /\ [][NextWide]_vars

\* ------------------------------------------------------ comments of a report
\* A session on a report that is there already (added from a draft by an
\* earlier addReport): comments are added to it and it is looked up.
InitComments ==
  /\ LET draft == [category |-> "streetlight", severity |-> "medium", status |-> "reported"]
         row == [id |-> 1,
                 category |-> supabaseIssue(draft).category,
                 status |-> supabaseIssue(draft).status,
                 priority |-> supabaseIssue(draft).priority,
                 votes |-> 0, voters |-> {}]
     IN /\ reports = <<newReport(Row(row), draft)>>
        /\ issues = <<row>>
  /\ nextId = 2
  /\ known = {1}
  /\ comments = <<>>
  /\ ops = [i \in Slots |-> Idle]
  /\ notify = 0
  /\ outcome = NoOutcome
  /\ calls = 0
  /\ voted = {}
  /\ deleted = {}
  /\ lastUpvote = NoChain
  /\ subscribed = TRUE
  /\ upload = NoUpload

NextComments ==
  \/ \E reportId \in Ids, commentData \in CommentDrafts :
       addCommentCall(reportId, commentData)
  \/ \E i \in Slots : createComment(i)
  \/ \E i \in Slots : addComment(i)
  \/ \E id \in Ids : getReportByIdCall(id)
  \/ \E i \in Slots : getComments(i)
  \/ \E i \in Slots : getReportById(i)

SpecComments == InitComments /\ [][NextComments]_vars

\* The call in slot i runs to its end in this step.
Completes(i, kind) ==
  /\ ops[i].kind = kind
  /\ ops[i].resp # "none"
  /\ ops'[i].kind = "idle"

TypeOK ==
  /\ notify \in 0..MaxNotify
  /\ calls \in 0..MaxCalls
  /\ nextId \in 1..(MaxIssues + 1)
  /\ Len(comments) <= MaxComments
  /\ Len(reports) <= 2 * MaxIssues

\* ==================================================================== claims

\* C1: in every reachable state every local report has upvotes = |upvotedBy|
\* and no user id twice in upvotedBy.
C1_UpvotesMatchVoters ==
  \A k \in DOMAIN reports :
    /\ reports[k].upvotes = Len(reports[k].upvotedBy)
    /\ Cardinality(Range(reports[k].upvotedBy)) = Len(reports[k].upvotedBy)

\* C2: once user u has upvoted report id, a later upvoteReport(id, u) changes
\* neither upvotes nor upvotedBy of that report.  (Stated for a collection that
\* holds the id once and a later call during which nothing else wrote the
\* collection, so that any change is the call's own.)
C2_UpvoteAtMostOnce ==
  [][\A i \in Slots :
       (/\ Completes(i, "upvote")
        /\ ops[i].again
        /\ ops[i].reports = reports
        /\ Cardinality(WithId(reports, ops[i].id)) = 1)
         => Votes(reports', ops[i].id) = Votes(reports, ops[i].id)]_vars

\* C3: upvoteReport(id, u) called again, by the same user and in the state its
\* first call left, leaves upvotes and upvotedBy of the report as the first call
\* left them.
C3_UpvoteIdempotent ==
  (/\ lastUpvote.cur.id # 0
   /\ lastUpvote.prev.id = lastUpvote.cur.id
   /\ lastUpvote.prev.userId = lastUpvote.cur.userId)
    => Votes(reports, lastUpvote.cur.id) = lastUpvote.cur.before

C3_Witness ==
  /\ lastUpvote.cur.id # 0
  /\ lastUpvote.prev.id = lastUpvote.cur.id
  /\ lastUpvote.prev.userId = lastUpvote.cur.userId
  /\ \E k \in DOMAIN lastUpvote.prev.before :
       ~Includes(lastUpvote.prev.before[k].upvotedBy, lastUpvote.cur.userId)
  /\ outcome.kind = "upvote"

\* C4: upvoteReport(id, u1) followed by upvoteReport(id, u2), u1 # u2 and
\* neither in upvotedBy, raises upvotes by exactly 2 and leaves both users in
\* upvotedBy, whichever of the two users comes first.
C4_TwoUsersTwoVotes ==
  (/\ lastUpvote.cur.id # 0
   /\ lastUpvote.prev.id = lastUpvote.cur.id
   /\ lastUpvote.prev.userId # lastUpvote.cur.userId)
    => LET before == lastUpvote.prev.before
           after == Votes(reports, lastUpvote.cur.id)
       IN /\ Len(after) = Len(before)
          /\ \A k \in DOMAIN before :
               (/\ ~Includes(before[k].upvotedBy, lastUpvote.prev.userId)
                /\ ~Includes(before[k].upvotedBy, lastUpvote.cur.userId))
                 => /\ after[k].upvotes = before[k].upvotes + 2
                    /\ Includes(after[k].upvotedBy, lastUpvote.prev.userId)
                    /\ Includes(after[k].upvotedBy, lastUpvote.cur.userId)

C4_Witness ==
  /\ lastUpvote.cur.id # 0
  /\ lastUpvote.prev.id = lastUpvote.cur.id
  /\ lastUpvote.prev.userId > lastUpvote.cur.userId
  /\ \E k \in DOMAIN lastUpvote.prev.before :
       /\ ~Includes(lastUpvote.prev.before[k].upvotedBy, lastUpvote.prev.userId)
       /\ ~Includes(lastUpvote.prev.before[k].upvotedBy, lastUpvote.cur.userId)

\* C5: when voteOnIssue fails, upvoteReport gives its caller no error and still
\* does the local bookkeeping: a report with that id in which the user had not
\* voted gets upvotes + 1 and the user appended to upvotedBy.
C5_UpvoteSurvivesRemoteFailure ==
  [][\A i \in Slots :
       (Completes(i, "upvote") /\ ops[i].resp = "err")
         => /\ outcome'.result = "ok"
            /\ Len(reports') = Len(ops[i].reports)
            /\ \A k \in DOMAIN ops[i].reports :
                 LET r == ops[i].reports[k]
                 IN (r.id = ops[i].id /\ ~Includes(r.upvotedBy, ops[i].userId))
                      => /\ reports'[k].upvotes = r.upvotes + 1
                         /\ reports'[k].upvotedBy = Append(r.upvotedBy, ops[i].userId)]_vars

C5_Witness ==
  /\ outcome.kind = "upvote"
  /\ outcome.remote = "err"
  /\ lastUpvote.cur.id = outcome.id
  /\ \E k \in DOMAIN lastUpvote.cur.before :
       ~Includes(lastUpvote.cur.before[k].upvotedBy, lastUpvote.cur.userId)

\* C6: when createIssue fails, addReport gives the error to its caller and
\* leaves the local collection as it is.
C6_AddFailureLeavesCollection ==
  [][\A i \in Slots :
       (Completes(i, "add") /\ ops[i].resp = "err")
         => /\ outcome'.result = "error"
            /\ reports' = reports]_vars

C6_Witness ==
  /\ outcome.kind = "add"
  /\ outcome.remote = "err"
  /\ reports # <<>>

\* C7: no two reports of the local collection share an id.
C7_UniqueIds ==
  \A j, k \in DOMAIN reports : reports[j].id = reports[k].id => j = k

\* C8: when deleteIssue fails, deleteReport gives the error to its caller and
\* removes no report from the local collection.
C8_DeleteFailureRemovesNothing ==
  [][\A i \in Slots :
       (Completes(i, "delete") /\ ops[i].resp = "err")
         => /\ outcome'.result = "error"
            /\ reports' = reports]_vars

C8_Witness ==
  /\ outcome.kind = "delete"
  /\ outcome.remote = "err"
  /\ WithId(reports, outcome.id) # {}

\* C9: once deleteReport(id) has completed successfully, the local collection
\* never again holds a report with that id.
C9_DeletedStaysDeleted ==
  \A k \in DOMAIN reports : reports[k].id \notin deleted

\* C10: when updateIssue fails, updateReport gives the error to its caller and
\* leaves the local collection as it is; and no step of an updateReport other
\* than the one after a successful response writes the collection.
C10_UpdateMergesOnlyAfterSuccess ==
  [][\A i \in Slots :
       /\ (Completes(i, "update") /\ ops[i].resp = "err")
            => outcome'.result = "error"
       /\ (/\ ops'[i] # ops[i]
           /\ \/ ops'[i].kind = "update"
              \/ ops[i].kind = "update" /\ ops[i].resp # "ok")
            => reports' = reports]_vars

C10_Witness ==
  /\ outcome.kind = "update"
  /\ outcome.remote = "err"
  /\ WithId(reports, outcome.id) # {}

\* The fields of a partial update that updateReport recognizes.
Recognized ==
  {"title", "description", "category", "severity", "location", "images", "status"}

\* C11: the payload updateReport sends to the remote update has no key other
\* than title, description, category, priority, location, images and status,
\* and has a key only if the partial update has the corresponding field
\* (severity for priority); id, upvotes, upvotedBy, comments, reportedBy and
\* assignedTo are never forwarded.
C11_OnlyRecognizedForwarded ==
  \A i \in Slots :
    ops[i].kind = "update" =>
      \A k \in DOMAIN ops[i].payload :
        LET field == IF k = "priority" THEN "severity" ELSE k
        IN field \in Recognized /\ field \in DOMAIN ops[i].arg

\* updateIssue has served a partial update that carried an id and a status,
\* and was sent the status only.
C11_Witness ==
  \E i \in Slots :
    /\ ops[i].kind = "update"
    /\ ops[i].resp = "ok"
    /\ DOMAIN ops[i].arg = {"id", "status"}
    /\ DOMAIN ops[i].payload = {"status"}

\* C12: whenever the status given to addReport or updateReport is
\* under_review, the status sent to the remote store is reported.
C12_UnderReviewCoerced ==
  \A i \in Slots :
    (/\ ops[i].kind \in {"add", "update"}
     /\ "status" \in DOMAIN ops[i].arg
     /\ ops[i].arg.status = "under_review")
      => /\ "status" \in DOMAIN ops[i].payload
         /\ ops[i].payload.status = "reported"

\* C13: the category addReport and updateReport send is the table value of
\* the local category, and the priority they send is the local severity.
C13_VocabularyMapping ==
  LET table == [pothole |-> "road", road_damage |-> "road",
                streetlight |-> "electricity",
                garbage |-> "waste", flooding |-> "waste", sign_damage |-> "waste",
                graffiti |-> "other", other |-> "other"]
  IN \A i \in Slots :
       ops[i].kind \in {"add", "update"} =>
         /\ "category" \in DOMAIN ops[i].arg =>
              /\ "category" \in DOMAIN ops[i].payload
              /\ ops[i].payload.category = table[ops[i].arg.category]
         /\ "severity" \in DOMAIN ops[i].arg =>
              /\ "priority" \in DOMAIN ops[i].payload
              /\ ops[i].payload.priority = ops[i].arg.severity

\* createIssue has stored a flooding draft of high severity as waste / high,
\* or updateIssue a change of category to flooding as waste.
C13_Witness ==
  \E i \in Slots :
    /\ ops[i].kind \in {"add", "update"}
    /\ ops[i].resp = "ok"
    /\ "category" \in DOMAIN ops[i].arg
    /\ ops[i].arg.category = "flooding"
    /\ \E k \in DOMAIN issues : issues[k].category = "waste"

\* C14: the report addReport appends has status reported, whatever status
\* the draft carries.
C14_CreatedIsReported ==
  [][\A i \in Slots :
       (Completes(i, "add") /\ ops[i].resp = "ok")
         => reports'[Len(reports')].status = "reported"]_vars

\* C15: updateReport leaves the id of every report of the collection as it
\* was, whatever the partial update carries.
C15_IdImmutable ==
  [][\A i \in Slots :
       Completes(i, "update")
         => /\ Len(reports') = Len(reports)
            /\ \A k \in DOMAIN reports : reports'[k].id = reports[k].id]_vars

\* s is the beginning of t.
IsPrefix(s, t) == Len(s) <= Len(t) /\ SubSeq(t, 1, Len(s)) = s

\* C16: when createComment fails, addComment gives the error to its caller
\* and appends nothing to any local report; when it succeeds, the report it
\* names gets exactly one more comment, at the end, carrying the id and
\* createdAt of the row the backend created.
C16_CommentAppendedOnlyAfterSuccess ==
  [][\A i \in Slots :
       Completes(i, "comment") =>
         IF ops[i].resp = "err"
         THEN outcome'.result = "error" /\ reports' = reports
         ELSE /\ outcome'.result = "ok"
              /\ Len(reports') = Len(ops[i].reports)
              /\ \A k \in DOMAIN ops[i].reports :
                   LET r == ops[i].reports[k]
                       cs == reports'[k].comments
                   IN IF r.id = ops[i].id
                      THEN /\ Len(cs) = Len(r.comments) + 1
                           /\ IsPrefix(r.comments, cs)
                           /\ \E n \in DOMAIN comments :
                                /\ comments[n].issue_id = ops[i].id
                                /\ comments[n].id = cs[Len(cs)].id
                                /\ comments[n].created_at = cs[Len(cs)].createdAt
                                /\ comments[n].content = cs[Len(cs)].text
                                /\ cs[Len(cs)].text = ops[i].arg.text
                      ELSE reports'[k] = r]_vars

\* A second addComment has failed on a report that holds the comment of a
\* first one.
C16_Witness ==
  /\ outcome.kind = "comment"
  /\ outcome.remote = "err"
  /\ outcome.result = "error"
  /\ \E k \in DOMAIN reports :
       /\ reports[k].id = outcome.id
       /\ Len(reports[k].comments) = 1
       /\ reports[k].comments[1].id = comments[1].id

\* C17: while a report stays in the local collection its comment sequence
\* only grows: what it held before a step is the beginning of what it holds
\* after.  (Stated for reports whose id the collection holds once.)
C17_CommentsOnlyGrow ==
  [][\A k \in DOMAIN reports : \A j \in DOMAIN reports' :
       (/\ reports'[j].id = reports[k].id
        /\ Cardinality(WithId(reports, reports[k].id)) = 1
        /\ Cardinality(WithId(reports', reports[k].id)) = 1)
         => IsPrefix(reports[k].comments, reports'[j].comments)]_vars

\* C18: a getReportById(A) called when the backend holds the one comment
\* "test" of report A, and answered, returns A with exactly one comment, whose
\* text is "test".
C18_CommentRoundTrip ==
  [][\A i \in Slots :
       (/\ Completes(i, "get")
        /\ ops[i].resp = "ok"
        /\ Len(ops[i].before) = 1
        /\ ops[i].before[1].content = "test"
        /\ CommentsOf(ops[i].id) = ops[i].before)
         => /\ Len(outcome'.value) = 1
            /\ Len(outcome'.value[1].comments) = 1
            /\ outcome'.value[1].comments[1].text = "test"]_vars

\* addReport, addComment(1, "test") and getReportById(1) were called in this
\* order, each after the one before was served, and the last has returned.
C18_Witness ==
  /\ calls = 3
  /\ outcome.kind = "get"
  /\ outcome.remote = "ok"
  /\ Len(comments) = 1
  /\ comments[1].content = "test"
  /\ comments[1].created_at = 2
  /\ Len(outcome.value) = 1
  /\ Len(outcome.value[1].comments) = 1

\* C19: getReportById(id) for an id the local collection does not hold
\* returns undefined, raises no error and sends nothing to the backend.
C19_UnknownIdIsUndefined ==
  [][\A id \in Ids :
       (getReportByIdCall(id) /\ WithId(reports, id) = {})
         => /\ outcome'.kind = "get"
            /\ outcome'.id = id
            /\ outcome'.result = "undefined"
            /\ outcome'.value = <<>>
            /\ ops' = ops]_vars

C19_Witness ==
  /\ outcome.kind = "get"
  /\ outcome.result = "undefined"
  /\ outcome.remote = "none"
  /\ WithId(reports, outcome.id) = {}

C21_RefetchReplacesWholesale ==
  [][/\ notify' < notify
          => \E i \in Slots : ops[i].kind = "idle" /\ ops'[i].kind = "fetch"
     /\ \A i \in Slots :
          (Completes(i, "fetch") /\ ops[i].resp = "ok")
            => /\ Len(reports') = Len(ops[i].data)
               /\ \A k \in DOMAIN ops[i].data :
                    reports'[k] = [id |-> ops[i].data[k].id,
                                   category |-> ops[i].data[k].category,
                                   status |-> ops[i].data[k].status,
                                   severity |-> ops[i].data[k].priority,
                                   upvotes |-> ops[i].data[k].votes,
                                   upvotedBy |-> <<>>,
                                   comments |-> <<>>]]_vars

\* A vote was recorded locally, and a later fetch has replaced the
\* collection by the rows of the backend: the voters are gone.
C21_Witness ==
  /\ voted # {}
  /\ reports # <<>>
  /\ reports = formattedReports(Reverse(Map(issues, Row)))
  /\ \A k \in DOMAIN reports : reports[k].upvotes > 0
  /\ \A i \in Slots : ops[i].kind = "idle"

\* C22: once the subscription's disposer has been called, a refetch that the
\* subscription started does not change the local collection any more, not
\* even one started before the disposer was called.
C22_DisposedSubscriptionIsSilent ==
  [][\A i \in Slots :
       (~subscribed /\ Completes(i, "fetch") /\ ops[i].again)
         => reports' = reports]_vars

\* C23: while the subscription is active, every createIssue that succeeds
\* for an addReport leaves a notification to deliver, and a notification to
\* deliver is followed by an invocation of the subscription callback (which
\* starts a refetch): only the callback takes a notification off, so the
\* notifications to deliver run out.
C23_AddIsFollowedByCallback ==
  /\ [][\A i \in Slots :
          (ops[i].kind = "add" /\ ops[i].resp = "none" /\ ops'[i].resp = "ok")
            => notify' > 0]_vars
  /\ (notify > 0) ~> (notify = 0 \/ ~subscribed)

\* createIssue has succeeded for an addReport, and the callback has started
\* a refetch since.
C23_Witness ==
  /\ subscribed
  /\ issues # <<>>
  /\ notify = 0
  /\ \E i \in Slots : ops[i].kind = "fetch" /\ ops[i].again

\* C24: a report keeps its local category from one state to the next unless
\* an updateReport writes the collection, refetches included, and the
\* category is always one of the 8 local categories.  (Stated for reports
\* whose id the collection holds once.)
C24_CategorySurvives ==
  [][(\A i \in Slots : ~Completes(i, "update"))
       => \A k \in DOMAIN reports : \A j \in DOMAIN reports' :
            (/\ reports'[j].id = reports[k].id
             /\ Cardinality(WithId(reports, reports[k].id)) = 1
             /\ Cardinality(WithId(reports', reports[k].id)) = 1)
              => /\ reports'[j].category = reports[k].category
                 /\ reports'[j].category \in Categories]_vars

\* C25: uploadImage throws, without a request to the storage, for every
\* file whose type does not start with image/ and for every file of more than
\* 1572864 bytes; an image file of 1572864 bytes or less is sent to the
\* storage.
C25_UploadValidation ==
  [][\A file \in Files :
       uploadImageCall(file) =>
         LET t == file.type
             image == /\ Len(t) >= 6
                      /\ t[1] = "i" /\ t[2] = "m" /\ t[3] = "a"
                      /\ t[4] = "g" /\ t[5] = "e" /\ t[6] = "/"
         IN IF ~image \/ file.size > 1572864
            THEN /\ upload'.stage = "thrown"
                 /\ upload'.requests = upload.requests
            ELSE /\ upload'.stage = "uploading"
                 /\ upload'.requests = upload.requests + 1]_vars

\* An image of exactly 1572864 bytes has been stored, and after it a larger
\* one was refused without a second request.
C25_Witness ==
  /\ upload.stage = "thrown"
  /\ upload.result = "File size exceeds 1.5MB limit"
  /\ upload.file.size = 1572865
  /\ upload.requests = 1

\* C26: two updateReport calls for one id that are in flight together can
\* have their remote writes and their local merges in either order, and the
\* merge of a call leaves every field the call sets with the call's value:
\* the value the collection ends with is that of the merge that came last.
C26_LastMergeWins ==
  [][\A i \in Slots :
       (Completes(i, "update") /\ ops[i].resp = "ok")
         => \A k \in DOMAIN reports' :
              reports'[k].id = ops[i].id
                => \A f \in DOMAIN ops[i].arg : reports'[k][f] = ops[i].arg[f]]_vars

\* Both calls are over: the backend wrote resolved, then closed; the merges
\* came the other way round and the collection ends with resolved.
C26_Witness ==
  /\ calls = MaxCalls
  /\ \A i \in Slots : ops[i].kind = "idle"
  /\ outcome.kind = "update"
  /\ outcome.remote = "ok"
  /\ \E k \in DOMAIN reports :
       /\ reports[k].id = outcome.id
       /\ reports[k].status = "resolved"
       /\ \E n \in DOMAIN issues :
            issues[n].id = outcome.id /\ issues[n].status = "closed"

\* The operations that change a report the caller names.
Mutations == {"update", "delete", "upvote", "comment"}

\* The call in slot i writes the collection when it completes.
Writes(i) ==
  /\ ops[i].kind \in Mutations
  /\ ops[i].resp # "none"
  /\ ops[i].kind = "upvote" \/ ops[i].resp = "ok"

\* C27: a refetch and a mutation in flight together are not coordinated; the
\* one that writes last decides the collection.  A refetch that completes
\* while a mutation is in flight leaves the mapped list it fetched; a
\* mutation that completes leaves its own result, built from the collection
\* it captured: the other reports as captured, the named one deleted or kept,
\* whatever a refetch wrote in between.
C27_LastWriterDecides ==
  [][\A i \in Slots :
       /\ (/\ Completes(i, "fetch")
           /\ ops[i].resp = "ok"
           /\ \E j \in Slots : ops[j].kind \in Mutations)
            => reports' = formattedReports(ops[i].data)
       /\ (Writes(i) /\ ops'[i].kind = "idle")
            => /\ SelectSeq(reports', LAMBDA r : r.id # ops[i].id)
                    = SelectSeq(ops[i].reports, LAMBDA r : r.id # ops[i].id)
               /\ Cardinality(WithId(reports', ops[i].id))
                    = IF ops[i].kind = "delete"
                      THEN 0
                      ELSE Cardinality(WithId(ops[i].reports, ops[i].id))]_vars

\* A refetch has replaced the collection while a mutation that captured
\* another one has its response and is about to write.
C27_Witness ==
  \E i \in Slots :
    /\ Writes(i)
    /\ ops[i].reports # reports
    /\ Len(ops[i].reports) = 2
    /\ reports = formattedReports(Reverse(Map(issues, Row)))
    /\ Len(reports) = 2

\* C28: an operation on one report leaves the record of every other report
\* as it is in the collection, whatever was in flight with it.
C28_OtherReportsUntouched ==
  [][\A i \in Slots :
       (Writes(i) /\ ops'[i].kind = "idle")
         => \A k \in DOMAIN reports :
              reports[k].id # ops[i].id
                => \E j \in DOMAIN reports' : reports'[j] = reports[k]]_vars

\* C29: the append of an addReport is applied to the collection of the
\* moment, not to the one captured at the call: every report there stays and
\* the new one follows them.  Two addReport calls in flight together that
\* both succeed therefore both leave their report, in either order.
C29_ConcurrentAddsBothKept ==
  [][\A i \in Slots :
       (Completes(i, "add") /\ ops[i].resp = "ok")
         => /\ Len(reports') = Len(reports) + 1
            /\ SubSeq(reports', 1, Len(reports)) = reports
            /\ reports'[Len(reports')].id = ops[i].data.id
            /\ (\E j \in Slots : j # i /\ ops[j].kind = "add")
                 => \A k \in DOMAIN reports :
                      \E n \in DOMAIN reports' : reports'[n] = reports[k]]_vars

\* Two addReport calls were made one after the other before any response;
\* both rows were created; the second call has appended its report and the
\* first, whose captured collection was empty, has appended after it.
C29_Witness ==
  /\ outcome.kind = "add"
  /\ outcome.remote = "ok"
  /\ Len(reports) = 2
  /\ reports[1].id = 2
  /\ reports[2].id = 1
  /\ reports[1].category \in {"pothole", "garbage"}
  /\ reports[2].category \in {"pothole", "garbage"}

\* C30: every upvoteReport(id, u) sends one vote request for (id, u) to the
\* backend, before it looks at upvotedBy: also when u is in upvotedBy of the
\* report already; the request is answered once and the call ends, and for
\* such a u its map leaves the captured collection as it is.
C30_VoteRequestedBeforeCheck ==
  [][/\ \A id \in Ids, u \in Users :
          upvoteReportCall(id, u)
            => \E i \in Slots :
                 /\ ops[i].kind = "idle"
                 /\ ops'[i].kind = "upvote"
                 /\ ops'[i].resp = "none"
                 /\ ops'[i].payload = [issue_id |-> id, user_id |-> u]
                 /\ \A j \in Slots \ {i} : ops'[j] = ops[j]
     /\ \A i \in Slots :
          /\ (ops[i].kind = "upvote" /\ ops'[i] # ops[i])
               => IF ops[i].resp = "none"
                  THEN /\ ops'[i].kind = "upvote"
                       /\ ops'[i].resp # "none"
                       /\ ops'[i].payload = ops[i].payload
                  ELSE ops'[i].kind = "idle"
          /\ (/\ Completes(i, "upvote")
              /\ \A k \in WithId(ops[i].reports, ops[i].id) :
                   Includes(ops[i].reports[k].upvotedBy, ops[i].userId))
               => reports' = ops[i].reports]_vars

\* The backend has served the vote request of a user the captured
\* collection already lists in upvotedBy of the report.
C30_Witness ==
  \E i \in Slots :
    /\ ops[i].kind = "upvote"
    /\ ops[i].resp = "ok"
    /\ WithId(ops[i].reports, ops[i].id) # {}
    /\ \A k \in WithId(ops[i].reports, ops[i].id) :
         Includes(ops[i].reports[k].upvotedBy, ops[i].userId)

====
